---------------------------- MODULE Spec2Model ----------------------------
(***************************************************************************)
(* The scheduled collection loop of hue-exporter (package collector):      *)
(* Gatherer.Run, the three CollectJob closures (lights, groups, sensors),  *)
(* the errgroup that joins them, the ticker channel and the context.       *)
(***************************************************************************)
EXTENDS Naturals, Sequences, FiniteSets, Bags, TLC

\* `cycle` counts started cycles and saturates here ("MaxCycles or more").
MaxCycles == 2

VARIABLES
    jobs,         \* g.jobs, the job list set by NewGatherer
    runPc,        \* position of the caller in Gatherer.Run
    launchIdx,    \* index of the `range g.jobs` loop of Run
    ctxErr,       \* ctx.Err() of the context given to Run ("nil" until done)
    tickPending,  \* g.ticker.C holds a tick (channel of capacity one)
    grpErr,       \* the errgroup's err field (first error of the cycle)
    grpCtxDone,   \* the errgroup's derived context (discarded by Run) is cancelled
    inst,         \* running job closures: [job, step, cur]
    launched,     \* per job, Collect calls made by Run in the current cycle
    ret,          \* per job, what its closure returned in the current cycle
    done,         \* per job, the steps its closure executed in the current cycle
    log,          \* bag of error-level log records of the current cycle
    retVal,       \* the value Run returned
    cycle,        \* history: cycles started (saturating at MaxCycles)
    prevFailed,   \* history: jobs whose closure returned an error in the previous cycle
    firstFail,    \* history: the job whose closure was first to return an error this cycle
    afterFail,    \* history: a closure completed a step successfully after a sibling failed
    cancelMid,    \* history: the context was cancelled while closures were in flight
    spanStarted,  \* per span (each job's, and Run's), tracer.Start calls in the current cycle
    spanEnded,    \* per span, span.End calls in the current cycle
    opts,         \* the options NewGatherer is called with
    g,            \* the Gatherer's collaborators: log, meter, hue, ticker
    newResult,    \* NewGatherer's outcome: "pending", "gatherer", an error, "panic"
    obsFamily,    \* the gauge family of the observer callback under scrape
    obsBatch,     \* the entity batch the callback's closure captured
    obsIndex,     \* the lightGroups the callback's closure captured
    obsOut,       \* per invocation of the callback, the observations it made
    registeredBy, \* per gauge family, the jobs whose NewInt64GaugeObserver call
                  \* for it succeeded in the current cycle
    ticksTaken    \* ticks Run has received from g.ticker.C, counted up to
                  \* MaxCycles - 1

vars == <<jobs, runPc, launchIdx, ctxErr, tickPending, grpErr, grpCtxDone, inst,
          launched, ret, done, log, retVal, cycle, prevFailed, firstFail,
          afterFail, cancelMid, spanStarted, spanEnded, opts, g, newResult,
          obsFamily, obsBatch, obsIndex, obsOut, registeredBy, ticksTaken>>

\* NewGatherer's arguments and results
ctorVars == <<opts, g, newResult>>

\* an observer callback, what it captured and what it observed
obsVars == <<obsFamily, obsBatch, obsIndex, obsOut>>

-----------------------------------------------------------------------------
(* Values *)

JobNames == {"lights", "groups", "sensors"}

\* the spans of a cycle: "lights.Collect", "groups.Collect", "sensors.Collect"
\* and "collector/gatherer.Run"
SpanNames == JobNames \cup {"run"}

\* error values: the job and step the error came from, its cause, and the
\* message of the fmt.Errorf("...: %w", err) that wraps it ("" = not wrapped)
NoErr   == [job |-> "none", step |-> 0, cause |-> "nil", wrap |-> ""]
Pending == [job |-> "none", step |-> 0, cause |-> "pending", wrap |-> ""]

IsError(e) == e.cause \notin {"nil", "pending"}

\* ctx.Err() as an error value
CtxError(reason) == [job |-> "none", step |-> 0, cause |-> reason, wrap |-> ""]

\* errors.Unwrap through the %w of fmt.Errorf
Unwrap(e) == [e EXCEPT !.wrap = ""]

\* fmt.Errorf(msg + ": %w", e)
Wrap(msg, e) == [e EXCEPT !.wrap = msg]

Fetch(name, logMsg) ==
    [kind |-> "fetch", name |-> name, logMsg |-> logMsg, wrapMsg |-> ""]

Register(name, logMsg, wrapMsg) ==
    [kind |-> "reg", name |-> name, logMsg |-> logMsg, wrapMsg |-> wrapMsg]

\* the closure returned by lights.Collect
LightsSteps ==
    << Fetch("groups", "failed to fetch groups"),
       Fetch("lights", "failed to fetch lights"),
       Register("light", "failed to record light count",
                "failed to collect light count"),
       Register("light_brightness", "failed to record light brightness",
                "failed to collect light brightness"),
       Fetch("newlights", "failed to fetch new lights"),
       Register("new_light", "failed to record new light count",
                "failed to collect new light count") >>

\* the closure returned by groups.Collect
GroupsSteps ==
    << Fetch("groups", "failed to fetch groups"),
       Register("group", "failed to record group count",
                "failed to collect group count") >>

\* the closure returned by sensors.Collect
SensorsSteps ==
    << Fetch("sensors", "failed to fetch sensors"),
       Register("sensors", "failed to record group count",
                "failed to collect group count") >>

Steps(j) ==
    CASE j = "lights"  -> LightsSteps
      [] j = "groups"  -> GroupsSteps
      [] j = "sensors" -> SensorsSteps

\* the gauge families the closures register
GaugeNames == {"light", "light_brightness", "new_light", "group", "sensors"}

\* NewGatherer: g.jobs = []CollectJob{&lights{..}, &groups{..}, &sensors{..}}
NewGathererJobs == <<"lights", "groups", "sensors">>

LogRecord(by, msg, e) == [by |-> by, msg |-> msg, err |-> e]

-----------------------------------------------------------------------------
(* NewGatherer and its options *)

\* the longest option list NewGatherer is called with
MaxOpts == 3

WithLogger(l) == [opt |-> "logger", arg |-> l]
WithTicker(d) == [opt |-> "ticker", arg |-> d]
WithExporter(ex) == [opt |-> "exporter", arg |-> ex]
WithHueConfig(cfg) == [opt |-> "hue", arg |-> cfg]

\* the options a caller may pass: a logger or a nil logger, a positive or a
\* non-positive interval, a meter provider or a nil one, a bridge configuration
Options ==
    {WithLogger("logger"), WithLogger("nil"), WithTicker("d"), WithTicker("0"),
     WithExporter("provider"), WithExporter("nil"), WithHueConfig("cfg")}

\* the option lists of length at most n
RECURSIVE OptionLists(_)
OptionLists(n) ==
    IF n = 0 THEN {<<>>}
    ELSE LET shorter == OptionLists(n - 1)
         IN  shorter \cup {Append(l, o) : l \in {x \in shorter : Len(x) = n - 1},
                                          o \in Options}

\* g := &Gatherer{ticker: time.NewTicker(time.Second * 5)}
NewGathererZero == [log |-> "nil", meter |-> "nil", hue |-> "nil", ticker |-> "5s"]

\* opt(g): what each option's closure assigns
ApplyOption(gg, o) ==
    CASE o.opt = "logger"   -> [gg EXCEPT !.log = o.arg]
      [] o.opt = "ticker"   -> [gg EXCEPT !.ticker = o.arg]
      [] o.opt = "exporter" -> [gg EXCEPT !.meter = "hue"]
      [] o.opt = "hue"      -> [gg EXCEPT !.hue = "bridge"]

\* whether opt(g) panics: time.NewTicker panics on a non-positive interval,
\* ex.Meter on a nil MeterProvider
Panics(o) ==
    \/ o.opt = "ticker" /\ o.arg = "0"
    \/ o.opt = "exporter" /\ o.arg = "nil"

\* for _, opt := range opts { opt(g) }: the Gatherer after the loop, or after
\* the options that precede the first panicking one
RECURSIVE ApplyOptions(_, _)
ApplyOptions(gg, os) ==
    IF os = <<>> THEN [g |-> gg, panic |-> FALSE]
    ELSE IF Panics(Head(os)) THEN [g |-> gg, panic |-> TRUE]
    ELSE ApplyOptions(ApplyOption(gg, Head(os)), Tail(os))

\* Gatherer.valid
Valid(gg) == IF gg.log = "nil" THEN "ErrInvalidLogger" ELSE "nil"

\* the options main passes
MainOptions == <<WithLogger("logger"), WithExporter("provider"), WithHueConfig("cfg")>>

-----------------------------------------------------------------------------
(* Initial state: NewGatherer has returned a Gatherer, Run is not yet called *)

Init ==
    /\ jobs = NewGathererJobs
    /\ runPc = "idle"
    /\ launchIdx = 1
    /\ ctxErr = "nil"
    /\ tickPending = FALSE
    /\ grpErr = NoErr
    /\ grpCtxDone = FALSE
    /\ inst = {}
    /\ launched = [j \in JobNames |-> 0]
    /\ ret = [j \in JobNames |-> Pending]
    /\ done = [j \in JobNames |-> <<>>]
    /\ log = EmptyBag
    /\ retVal = NoErr
    /\ cycle = 0
    /\ prevFailed = {}
    /\ firstFail = "none"
    /\ afterFail = FALSE
    /\ cancelMid = FALSE
    /\ spanStarted = [n \in SpanNames |-> 0]
    /\ spanEnded = [n \in SpanNames |-> 0]
    /\ opts = MainOptions
    /\ g = ApplyOptions(NewGathererZero, MainOptions).g
    /\ newResult = "gatherer"
    /\ obsFamily = "none"
    /\ obsBatch = <<>>
    /\ obsIndex = <<>>
    /\ obsOut = <<>>
    /\ registeredBy = [f \in GaugeNames |-> {}]
    /\ ticksTaken = 0

-----------------------------------------------------------------------------
(* Helpers of the job closures *)

\* (mutation of JobCtxDone) the closures fetch with the errgroup's context,
\* which the first failing closure cancels
JobCtxDoneWithGroup == ctxErr # "nil" \/ grpCtxDone

\* the context a closure fetches with: the ctx handed to Collect by Run, which
\* is derived from Run's ctx (the errgroup's own context is discarded: `grp, _`)
JobCtxDone == ctxErr # "nil"

\* outcomes of l.hue.Get...Context(ctx): the batch, a bridge/network error, or,
\* once the context is done, the context's error
FetchOutcomes == {"ok", "net"} \cup (IF JobCtxDone THEN {"ctx"} ELSE {})

\* outcomes of meter.NewInt64GaugeObserver
RegOutcomes == {"ok", "reg"}

Outcomes(s) == IF s.kind = "fetch" THEN FetchOutcomes ELSE RegOutcomes

\* the error a failed call hands to the closure
CallError(j, k, o) == [job |-> j, step |-> k, cause |-> o, wrap |-> ""]

\* the error the closure returns for it: `return err` after a fetch,
\* `return fmt.Errorf("failed to collect ...: %w", err)` after a registration
ReturnedError(s, e) == IF s.kind = "reg" THEN Wrap(s.wrapMsg, e) ELSE e

\* (mutation of Continues) a failed fetch is logged but the closure goes on
ContinuesAfterFetchFailure(j, k, o) ==
    (o = "ok" \/ Steps(j)[k].kind = "fetch") /\ k < Len(Steps(j))

\* (mutation of Continues) a failed registration is logged but the closure goes on
ContinuesAfterRegFailure(j, k, o) ==
    (o = "ok" \/ Steps(j)[k].kind = "reg") /\ k < Len(Steps(j))

\* whether the closure goes on to its next step after step k ended with o:
\* every `if err != nil` branch returns
Continues(j, k, o) == o = "ok" /\ k < Len(Steps(j))

\* (mutation of LogOnFailure) the closure returns the error without logging it
LogOnFailureSilent(l, j, s, e) == l

\* log.Error(<message>, zap.Error(err)) in the closure's `if err != nil` branch
LogOnFailure(l, j, s, e) == l (+) SetToBag({LogRecord(j, s.logMsg, e)})

\* errgroup: errOnce.Do(func() { g.err = err; cancel() })
FirstError(cur, e) == IF cur = NoErr THEN e ELSE cur

\* the closures of the current errgroup that have not returned
InFlight == {i \in inst : i.cur}

-----------------------------------------------------------------------------
(* Gatherer.Run *)

\* (mutation of AfterEnter) Run looks at ctx before its first cycle
AfterEnterChecksCtx == IF ctxErr # "nil" THEN "returned" ELSE "top"

\* where Run stands once entered: at the top of the for loop
AfterEnter == "top"

\* the caller invokes Run(ctx) on the Collector NewGatherer returned
RunEnter ==
    /\ runPc = "idle"
    /\ newResult = "gatherer"
    /\ runPc' = AfterEnter
    /\ UNCHANGED <<jobs, launchIdx, ctxErr, tickPending, grpErr, grpCtxDone, inst,
                   launched, ret, done, log, retVal, cycle, prevFailed, firstFail,
                   afterFail, cancelMid, spanStarted,
                   spanEnded, ctorVars, obsVars, registeredBy, ticksTaken>>

\* top of the for loop: tracer.Start, g.log.SetContext, errgroup.WithContext
StartCycle ==
    /\ runPc = "top"
    /\ runPc' = "launch"
    /\ launchIdx' = 1
    /\ grpErr' = NoErr
    /\ grpCtxDone' = FALSE
    /\ inst' = {[i EXCEPT !.cur = FALSE] : i \in inst}
    /\ launched' = [j \in JobNames |-> 0]
    /\ ret' = [j \in JobNames |-> Pending]
    /\ done' = [j \in JobNames |-> <<>>]
    /\ log' = EmptyBag
    /\ cycle' = IF cycle < MaxCycles THEN cycle + 1 ELSE cycle
    /\ prevFailed' = {j \in JobNames : IsError(ret[j])}
    /\ firstFail' = "none"
    /\ afterFail' = FALSE
    /\ spanStarted' = [n \in SpanNames |-> IF n = "run" THEN 1 ELSE 0]
    /\ spanEnded' = [n \in SpanNames |-> 0]
    /\ registeredBy' = [f \in GaugeNames |-> {}]
    /\ UNCHANGED <<jobs, ctxErr, tickPending, retVal, cancelMid, ctorVars, obsVars, ticksTaken>>

\* (mutation of LaunchTarget) every iteration launches the first job of the list
LaunchTargetFirstJob(i) == jobs[1]

\* the job the i-th iteration of `for _, job := range g.jobs` launches
LaunchTarget(i) == jobs[i]

\* the wait the loop goes to after the last grp.Go
AfterLaunch(i) == IF i = Len(jobs) THEN "wait" ELSE "launch"

\* one iteration of the range loop: grp.Go(job.Collect(ctx))
Launch ==
    /\ runPc = "launch"
    /\ launchIdx <= Len(jobs)
    /\ LET j == LaunchTarget(launchIdx) IN
         /\ inst' = inst \cup {[job |-> j, step |-> 1, cur |-> TRUE]}
         /\ launched' = [launched EXCEPT ![j] = @ + 1]
         /\ spanStarted' = [spanStarted EXCEPT ![j] = @ + 1]
    /\ runPc' = AfterLaunch(launchIdx)
    /\ launchIdx' = launchIdx + 1
    /\ UNCHANGED <<jobs, ctxErr, tickPending, grpErr, grpCtxDone, ret, done, log,
                   retVal, cycle, prevFailed, firstFail, afterFail, cancelMid, spanEnded, ctorVars, obsVars, registeredBy, ticksTaken>>

\* (mutation of DeferredSpanEnd) span.End() is called at the end of the closure
\* only, so the error branches return without it
DeferredSpanEndOnSuccess(o) == o = "ok"

\* `defer span.End()`: whether the closure's return after an outcome o ends its span
DeferredSpanEnd(o) == TRUE

\* (mutation of GaugeName) sensors.Collect registers under the name it was
\* copied with
GaugeNameCopiedFromGroups(j, s) == IF j = "sensors" THEN "group" ELSE s.name

\* the name handed to NewInt64GaugeObserver
GaugeName(j, s) == s.name

\* one call of a running closure: a fetch or a gauge registration, with the
\* `if err != nil { log.Error(...); return ... }` that follows it, and the
\* closure's return (errgroup records the first error and cancels its context)
JobStep(i) ==
    /\ i \in inst
    /\ LET j == i.job
           k == i.step
           s == Steps(j)[k]
       IN \E o \in Outcomes(s) :
            LET e == CallError(j, k, o)
                r == IF o = "ok" THEN NoErr ELSE ReturnedError(s, e)
                returns == ~Continues(j, k, o)
            IN
            /\ done' = [done EXCEPT ![j] = Append(@, k)]
            /\ log' = IF o = "ok" THEN log ELSE LogOnFailure(log, j, s, e)
            /\ inst' = IF returns
                         THEN inst \ {i}
                         ELSE (inst \ {i}) \cup {[i EXCEPT !.step = k + 1]}
            /\ IF returns /\ i.cur
                 THEN /\ ret' = [ret EXCEPT ![j] = r]
                      /\ grpErr' = IF IsError(r) THEN FirstError(grpErr, r) ELSE grpErr
                      /\ grpCtxDone' = (grpCtxDone \/ IsError(r))
                      /\ firstFail' = IF IsError(r) /\ firstFail = "none"
                                        THEN j ELSE firstFail
                 ELSE UNCHANGED <<ret, grpErr, grpCtxDone, firstFail>>
            /\ afterFail' = (afterFail \/ (o = "ok" /\ i.cur /\ grpCtxDone))
            /\ spanEnded' = IF returns /\ i.cur /\ DeferredSpanEnd(o)
                              THEN [spanEnded EXCEPT ![j] = @ + 1]
                              ELSE spanEnded
            /\ registeredBy' = IF s.kind = "reg" /\ o = "ok"
                                 THEN [registeredBy EXCEPT
                                         ![GaugeName(j, s)] = @ \cup {j}]
                                 ELSE registeredBy
    /\ UNCHANGED <<jobs, runPc, launchIdx, ctxErr, tickPending, launched, retVal,
                   cycle, prevFailed, cancelMid, spanStarted, ctorVars, obsVars, ticksTaken>>

\* (mutation of GroupDone) the join releases as soon as one closure has returned
GroupDoneAtFirstReturn == \E j \in JobNames : ret[j] # Pending

\* grp.Wait() returns once every closure handed to grp.Go has returned
GroupDone == InFlight = {}

\* (mutation of WaitLogs) the record is written after every join
WaitLogsAlways(err) == TRUE

\* `if err := grp.Wait(); err != nil`
WaitLogs(err) == err # NoErr

\* (mutation of AfterWait) `return err` when the join reports a failure
AfterWaitReturnsOnError(err) == IF err # NoErr THEN "returned" ELSE "select"

\* where Run goes after the join
AfterWait(err) == "select"

\* grp.Wait() and the log.Error("job failed to collect metrics", ...) after it
Wait ==
    /\ runPc = "wait"
    /\ GroupDone
    /\ log' = IF WaitLogs(grpErr)
                THEN log (+) SetToBag({LogRecord("gatherer",
                                  "job failed to collect metrics", grpErr)})
                ELSE log
    /\ grpCtxDone' = TRUE
    /\ runPc' = AfterWait(grpErr)
    /\ UNCHANGED <<jobs, launchIdx, ctxErr, tickPending, grpErr, inst, launched,
                   ret, done, retVal, cycle, prevFailed, firstFail, afterFail,
                   cancelMid, spanStarted,
                   spanEnded, ctorVars, obsVars, registeredBy, ticksTaken>>

\* (mutation of TickReady) the tick branch of the select never blocks
TickReadyAlways == TRUE

\* whether <-g.ticker.C can be received: the channel holds a tick
TickReady == tickPending

\* `case <-g.ticker.C: span.End()`, then the next iteration
SelectTick ==
    /\ runPc = "select"
    /\ TickReady
    /\ tickPending' = FALSE
    /\ ticksTaken' = IF ticksTaken < MaxCycles - 1 THEN ticksTaken + 1 ELSE ticksTaken
    /\ spanEnded' = [spanEnded EXCEPT !["run"] = @ + 1]
    /\ runPc' = "top"
    /\ UNCHANGED <<jobs, launchIdx, ctxErr, grpErr, grpCtxDone, inst, launched,
                   ret, done, log, retVal, cycle, prevFailed, firstFail, afterFail,
                   cancelMid, spanStarted, ctorVars, obsVars, registeredBy>>

\* what the ctx.Done() branch returns: `return ctx.Err()`
DoneReturn == CtxError(ctxErr)

\* (mutation of AfterDone) the ctx.Done() branch only leaves the select, as a
\* `break` there would, and the loop goes on
AfterDoneBreaksSelect == "top"

\* where the ctx.Done() branch leaves Run
AfterDone == "returned"

\* `case <-ctx.Done():` log the cancellation, span.End(), return ctx.Err()
SelectDone ==
    /\ runPc = "select"
    /\ ctxErr # "nil"
    /\ log' = log (+) SetToBag({LogRecord("gatherer", "context was cancelled",
                                          CtxError(ctxErr))})
    /\ retVal' = DoneReturn
    /\ spanEnded' = [spanEnded EXCEPT !["run"] = @ + 1]
    /\ runPc' = AfterDone
    /\ UNCHANGED <<jobs, launchIdx, ctxErr, tickPending, grpErr, grpCtxDone, inst,
                   launched, ret, done, cycle, prevFailed, firstFail, afterFail,
                   cancelMid, spanStarted, ctorVars, obsVars, registeredBy, ticksTaken>>

-----------------------------------------------------------------------------
(* Environment *)

\* the caller cancels the context given to Run (or its deadline passes)
Cancel ==
    /\ ctxErr = "nil"
    /\ ctxErr' \in {"canceled", "deadline"}
    /\ cancelMid' = (InFlight # {})
    /\ UNCHANGED <<jobs, runPc, launchIdx, tickPending, grpErr, grpCtxDone, inst,
                   launched, ret, done, log, retVal, cycle, prevFailed, firstFail,
                   afterFail, spanStarted,
                   spanEnded, ctorVars, obsVars, registeredBy, ticksTaken>>

\* the ticker fires: the tick is buffered, or dropped when one is pending
Tick ==
    /\ tickPending' = TRUE
    /\ UNCHANGED <<jobs, runPc, launchIdx, ctxErr, grpErr, grpCtxDone, inst,
                   launched, ret, done, log, retVal, cycle, prevFailed, firstFail,
                   afterFail, cancelMid, spanStarted,
                   spanEnded, ctorVars, obsVars, registeredBy, ticksTaken>>

-----------------------------------------------------------------------------
(* Specifications *)

Progress ==
    \/ RunEnter
    \/ StartCycle
    \/ Launch
    \/ \E i \in inst : JobStep(i)
    \/ Wait

Next ==
    \/ RunEnter
    \/ StartCycle
    \/ Launch
    \/ \E i \in inst : JobStep(i)
    \/ Wait
    \/ SelectTick
    \/ SelectDone
    \/ Cancel
    \/ Tick

Spec == Init /\ [][Next]_vars

LiveSpec ==
    /\ Init /\ [][Next]_vars
    /\ WF_vars(Progress)
    /\ SF_vars(SelectDone)

-----------------------------------------------------------------------------
(* Construction: NewGatherer called with any option list, then Run's entry *)

\* NewGatherer is about to be called with some option list
CtorInit ==
    /\ opts \in OptionLists(MaxOpts)
    /\ g = NewGathererZero
    /\ newResult = "pending"
    /\ jobs = <<>>
    /\ runPc = "idle"
    /\ launchIdx = 1
    /\ ctxErr = "nil"
    /\ tickPending = FALSE
    /\ grpErr = NoErr
    /\ grpCtxDone = FALSE
    /\ inst = {}
    /\ launched = [j \in JobNames |-> 0]
    /\ ret = [j \in JobNames |-> Pending]
    /\ done = [j \in JobNames |-> <<>>]
    /\ log = EmptyBag
    /\ retVal = NoErr
    /\ cycle = 0
    /\ prevFailed = {}
    /\ firstFail = "none"
    /\ afterFail = FALSE
    /\ cancelMid = FALSE
    /\ spanStarted = [n \in SpanNames |-> 0]
    /\ spanEnded = [n \in SpanNames |-> 0]
    /\ obsFamily = "none"
    /\ obsBatch = <<>>
    /\ obsIndex = <<>>
    /\ obsOut = <<>>
    /\ registeredBy = [f \in GaugeNames |-> {}]
    /\ ticksTaken = 0

\* NewGatherer(opts...): apply the options, validate, build the job list; a
\* panicking option unwinds NewGatherer before anything is returned
NewGathererCall ==
    /\ newResult = "pending"
    /\ LET built == ApplyOptions(g, opts)
           err == Valid(built.g)
           fails == built.panic \/ err # "nil"
       IN /\ g' = built.g
          /\ newResult' = IF built.panic THEN "panic"
                          ELSE IF err # "nil" THEN err ELSE "gatherer"
          /\ jobs' = IF fails THEN jobs ELSE NewGathererJobs
    /\ UNCHANGED <<opts, runPc, launchIdx, ctxErr, tickPending, grpErr, grpCtxDone,
                   inst, launched, ret, done, log, retVal, cycle, prevFailed,
                   firstFail, afterFail, cancelMid, spanStarted, spanEnded, obsVars, registeredBy, ticksTaken>>

CtorNext ==
    \/ NewGathererCall
    \/ RunEnter
    \/ StartCycle
    \/ Launch
    \/ Cancel

CtorSpec == CtorInit /\ [][CtorNext]_vars

-----------------------------------------------------------------------------
(* The observer callbacks and the batches they capture *)

\* the longest entity batch a fetch returns
MaxBatch == 2

\* the longest group list the lights job builds its lightGroups from
MaxGroups == 2

\* how often the metrics backend invokes one callback
MaxScrapes == 2

\* the gauge families and the observer registered for each
Families == GaugeNames

\* identifiers the bridge hands out
EntityIds == {1, 12}

\* the sequences over S of length at most n
RECURSIVE SeqsUpTo(_, _)
SeqsUpTo(S, n) ==
    IF n = 0 THEN {<<>>}
    ELSE LET shorter == SeqsUpTo(S, n - 1)
         IN  shorter \cup {Append(l, e) : l \in {x \in shorter : Len(x) = n - 1},
                                          e \in S}

\* huego.Light: ID, State.On, State.Bri
Lights == [id : EntityIds, on : BOOLEAN, bri : {0, 254}]

\* Group.Lights as the bridge sends it: light ids as strings
MemberLists == {<<>>, <<"01", "12">>, <<"12", "1">>}

\* Group.Name
GroupName(id) == IF id = 1 THEN "Group A" ELSE "Group B"

\* huego.Group as fetched for the lights job's lightGroups
MemberGroups ==
    {[id |-> i, name |-> GroupName(i), lights |-> m, on |-> FALSE, bri |-> 0] :
        i \in EntityIds, m \in MemberLists}

\* huego.Group as fetched for the groups job
Groups ==
    {[id |-> i, name |-> GroupName(i), lights |-> <<>>, on |-> o, bri |-> b] :
        i \in EntityIds, o \in BOOLEAN, b \in {0, 254}}

\* huego.Sensor: ID, Type
Sensors == [id : EntityIds, type : {"ZLLSwitch", "Daylight"}]

\* huego.NewLight: LastScan and the names of the lights found
NewLights ==
    [lastScan : {"none", "2021-10-01T12:00:00"},
     lights : SeqsUpTo({"Hue bulb 1", "Hue bulb 2"}, MaxBatch)]

\* the batches a fetch for the family can return
Batches(f) ==
    CASE f \in {"light", "light_brightness"} -> SeqsUpTo(Lights, MaxBatch)
      [] f = "new_light" -> NewLights
      [] f = "group" -> SeqsUpTo(Groups, MaxBatch)
      [] f = "sensors" -> SeqsUpTo(Sensors, MaxBatch)

\* the entities of a batch, in the order fetched
Entities(f, b) == IF f = "new_light" THEN b.lights ELSE b

\* strconv.Itoa for a non-negative id
Digit(d) ==
    CASE d = 0 -> "0" [] d = 1 -> "1" [] d = 2 -> "2" [] d = 3 -> "3"
      [] d = 4 -> "4" [] d = 5 -> "5" [] d = 6 -> "6" [] d = 7 -> "7"
      [] d = 8 -> "8" [] d = 9 -> "9"

RECURSIVE Itoa(_)
Itoa(n) == IF n < 10 THEN Digit(n) ELSE Itoa(n \div 10) \o Digit(n % 10)

\* (mutation of lightGroupLightExists) compares the group's own id
lightGroupLightExistsByGroupId(lg, id) == lg.id = id

\* lightGroup.lightExists
lightGroupLightExists(lg, id) ==
    \E n \in DOMAIN lg.lights : lg.lights[n] = Itoa(id)

\* (mutation of lightGroupsLightExists) the last group that holds the light
lightGroupsLightExistsLast(lgs, id) ==
    IF \E n \in DOMAIN lgs : lightGroupLightExists(lgs[n], id)
    THEN CHOOSE n \in DOMAIN lgs :
            /\ lightGroupLightExists(lgs[n], id)
            /\ \A m \in (n + 1)..Len(lgs) : ~lightGroupLightExists(lgs[m], id)
    ELSE 0

\* lightGroups.lightExists: the position of the first group that holds the
\* light, 0 for nil
lightGroupsLightExists(lgs, id) ==
    IF \E n \in DOMAIN lgs : lightGroupLightExists(lgs[n], id)
    THEN CHOOSE n \in DOMAIN lgs :
            /\ lightGroupLightExists(lgs[n], id)
            /\ \A m \in 1..(n - 1) : ~lightGroupLightExists(lgs[m], id)
    ELSE 0

\* var assignedGroup string; if group := groups.lightExists(l.ID); group != nil
assignedGroup(lgs, id) ==
    LET n == lightGroupsLightExists(lgs, id)
    IN  IF n # 0 THEN lgs[n].name ELSE ""

\* res.Observe(value, labels...)
Observe(v, ls) == [value |-> v, labels |-> ls]

\* (mutation of ObserveEmpty) an empty batch observes nothing
ObserveEmptyNothing(ls) == <<>>

\* the len(...) == 0 branch: one Observe(0, ...) and return
ObserveEmpty(ls) == <<Observe(0, ls)>>

\* (mutation of RangeOver) entities equal to an earlier one are skipped
RangeOverDistinct(es) ==
    LET keep == {n \in DOMAIN es : \A m \in 1..(n - 1) : es[m] # es[n]}
        RECURSIVE Pick(_)
        Pick(n) == IF n > Len(es) THEN <<>>
                   ELSE IF n \in keep THEN <<es[n]>> \o Pick(n + 1)
                   ELSE Pick(n + 1)
    IN  Pick(1)

\* for _, e := range es
RangeOver(es) == es

lightObserver(lights, groups) ==
    IF Len(lights) = 0 THEN ObserveEmpty(<<>>)
    ELSE LET es == RangeOver(lights)
         IN  [n \in DOMAIN es |->
                Observe(1, [on |-> es[n].on, id |-> es[n].id,
                            group |-> assignedGroup(groups, es[n].id)])]

lightBrightnessObserver(lights, groups) ==
    IF Len(lights) = 0 THEN ObserveEmpty(<<>>)
    ELSE LET es == RangeOver(lights)
         IN  [n \in DOMAIN es |->
                Observe(es[n].bri, [on |-> es[n].on, id |-> es[n].id,
                                    group |-> assignedGroup(groups, es[n].id)])]

newLightObserver(v) ==
    IF Len(v.lights) = 0 THEN ObserveEmpty([lastScan |-> v.lastScan])
    ELSE LET es == RangeOver(v.lights)
         IN  [n \in DOMAIN es |->
                Observe(1, [name |-> es[n], lastScan |-> v.lastScan])]

groupObserver(groups) ==
    IF Len(groups) = 0 THEN ObserveEmpty(<<>>)
    ELSE LET es == RangeOver(groups)
         IN  [n \in DOMAIN es |->
                Observe(1, [on |-> es[n].on, id |-> es[n].id,
                            bri |-> es[n].bri, name |-> es[n].name])]

sensorObserver(sensors) ==
    IF Len(sensors) = 0 THEN ObserveEmpty(<<>>)
    ELSE LET es == RangeOver(sensors)
         IN  [n \in DOMAIN es |->
                Observe(1, [type |-> es[n].type, id |-> es[n].id])]

\* the callback each family is registered with
Observer(f, b, lgs) ==
    CASE f = "light" -> lightObserver(b, lgs)
      [] f = "light_brightness" -> lightBrightnessObserver(b, lgs)
      [] f = "new_light" -> newLightObserver(b)
      [] f = "group" -> groupObserver(b)
      [] f = "sensors" -> sensorObserver(b)

\* a callback has been built from some fetched batch and is registered
ObsInit ==
    /\ obsFamily \in Families
    /\ obsBatch \in Batches(obsFamily)
    /\ obsIndex \in IF obsFamily \in {"light", "light_brightness"}
                    THEN SeqsUpTo(MemberGroups, MaxGroups) ELSE {<<>>}
    /\ obsOut = <<>>
    /\ registeredBy = [f \in GaugeNames |-> {}]
    /\ ticksTaken = 0
    /\ opts = MainOptions
    /\ g = ApplyOptions(NewGathererZero, MainOptions).g
    /\ newResult = "gatherer"
    /\ jobs = NewGathererJobs
    /\ runPc = "idle"
    /\ launchIdx = 1
    /\ ctxErr = "nil"
    /\ tickPending = FALSE
    /\ grpErr = NoErr
    /\ grpCtxDone = FALSE
    /\ inst = {}
    /\ launched = [j \in JobNames |-> 0]
    /\ ret = [j \in JobNames |-> Pending]
    /\ done = [j \in JobNames |-> <<>>]
    /\ log = EmptyBag
    /\ retVal = NoErr
    /\ cycle = 0
    /\ prevFailed = {}
    /\ firstFail = "none"
    /\ afterFail = FALSE
    /\ cancelMid = FALSE
    /\ spanStarted = [n \in SpanNames |-> 0]
    /\ spanEnded = [n \in SpanNames |-> 0]

\* the metrics backend invokes the callback
Scrape ==
    /\ obsFamily \in Families
    /\ Len(obsOut) < MaxScrapes
    /\ obsOut' = Append(obsOut, Observer(obsFamily, obsBatch, obsIndex))
    /\ UNCHANGED <<obsFamily, obsBatch, obsIndex, ctorVars, jobs, runPc, launchIdx,
                   ctxErr, tickPending, grpErr, grpCtxDone, inst, launched, ret,
                   done, log, retVal, cycle, prevFailed, firstFail, afterFail,
                   cancelMid, spanStarted, spanEnded, registeredBy, ticksTaken>>

ObsNext == Scrape

ObsSpec == ObsInit /\ [][ObsNext]_vars

-----------------------------------------------------------------------------
(* Properties *)

\* C1: Run returns only from the ctx.Done() branch of the select, with the
\* context done and the context's error as its value; whatever the jobs
\* returned, the join is followed by the select, and the select is left only
\* by returning or, consuming a tick, for the top of the next cycle.
C1_RunReturnsOnlyOnCancel ==
    [][ /\ (runPc # "returned" /\ runPc' = "returned")
             => (runPc = "select" /\ ctxErr # "nil" /\ retVal' = CtxError(ctxErr))
        /\ (runPc = "wait" /\ runPc' # "wait") => runPc' = "select"
        /\ (runPc = "select" /\ runPc' # "select")
             => \/ runPc' = "returned"
                \/ (runPc' = "top" /\ tickPending /\ ~tickPending') ]_vars

\* Run has returned after a second cycle that followed a cycle with a failed
\* job, and a job failed in the second cycle too
C1_Witness ==
    /\ runPc = "returned"
    /\ cycle = 2
    /\ prevFailed # {}
    /\ grpErr # NoErr

\* C2: cycles never overlap: no closure of an earlier cycle is running once a
\* cycle has started, at most one closure of each job is running, and no
\* closure is running when Run is at the top of the loop, in the select, or
\* outside the loop.
C2_CyclesNeverOverlap ==
    /\ \A i \in inst : i.cur
    /\ \A j \in JobNames : Cardinality({i \in inst : i.job = j}) <= 1
    /\ runPc \in {"idle", "top", "select", "returned"} => inst = {}

\* the three closures of a second cycle are running
C2_Witness ==
    /\ cycle = 2
    /\ {i.job : i \in inst} = JobNames

\* C3 (as claimed): once the context was cancelled while closures were in
\* flight, the select is never left for another cycle, whatever the ticker
\* holds.
C3_NoCycleAfterMidCycleCancel ==
    [][ (cancelMid /\ runPc = "select") => runPc' \in {"select", "returned"} ]_vars

\* C5: the job list stays the one NewGatherer set, and each cycle calls the
\* Collect of each of the three jobs exactly once: during the range loop the
\* jobs before the loop index have been launched once and the others not yet,
\* and from the join on every job has been launched exactly once, whatever
\* failed in the cycle before.
C5_EveryCycleLaunchesEachJobOnce ==
    /\ jobs = NewGathererJobs
    /\ runPc = "launch" =>
         \A n \in 1..Len(jobs) :
            launched[jobs[n]] = IF n < launchIdx THEN 1 ELSE 0
    /\ runPc \in {"wait", "select", "returned"} =>
         \A j \in JobNames : launched[j] = 1

\* all three jobs failed in the previous cycle and all three have been
\* launched again
C5_Witness ==
    /\ runPc = "wait"
    /\ cycle = 2
    /\ prevFailed = JobNames
    /\ \A j \in JobNames : launched[j] = 1

\* C4: under fair scheduling (closures and Run keep being scheduled, every
\* call returns, and the select does not forever pass over a ready
\* ctx.Done()), a cancelled context leads to Run returning; Run's value is the
\* context's non-nil error; and once Run has returned it stays returned, no
\* closure runs or is launched, and no tick is taken from the ticker channel.
C4_CancelTerminates ==
    /\ (ctxErr # "nil" /\ runPc # "idle") ~> (runPc = "returned")
    /\ [](runPc = "returned" => (ctxErr # "nil" /\ retVal = CtxError(ctxErr)))
    /\ [][ runPc = "returned" =>
             /\ runPc' = "returned"
             /\ inst = {} /\ inst' = {}
             /\ launched' = launched
             /\ cycle' = cycle
             /\ retVal' = retVal
             /\ (tickPending => tickPending') ]_vars

\* Run has returned the context's error after the context was cancelled while
\* closures of a second cycle were in flight, a further tick having fired since
C4_Witness ==
    /\ runPc = "returned"
    /\ retVal = CtxError("canceled")
    /\ cancelMid
    /\ cycle = 2
    /\ tickPending

-----------------------------------------------------------------------------
(* Reading the cycle's log and the closures' histories *)

\* the join of the current cycle is behind Run
Joined == runPc \in {"select", "top", "returned"}

JobFailedMsg == "job failed to collect metrics"

GathererRecord(e) == LogRecord("gatherer", JobFailedMsg, e)

\* number of records of bag l that carry error e (itself or wrapped) and were
\* written by one of `writers`
RecordsCarrying(l, e, writers) ==
    LET S == {r \in BagToSet(l) : Unwrap(r.err) = Unwrap(e) /\ r.by \in writers}
    IN  BagCardinality([r \in S |-> l[r]])

\* number of 'job failed to collect metrics' records of bag l
GathererFailRecords(l) ==
    LET S == {r \in BagToSet(l) : r.by = "gatherer" /\ r.msg = JobFailedMsg}
    IN  BagCardinality([r \in S |-> l[r]])

\* the steps of job j of the given kind that the cycle's log reports as failed
FailedSteps(j, kind) ==
    {r.err.step : r \in {x \in BagToSet(log) :
                           x.by = j /\ Steps(j)[x.err.step].kind = kind}}

\* the gauge families job j registered in the current cycle
Registered(j) ==
    {Steps(j)[done[j][n]].name :
        n \in {m \in DOMAIN done[j] :
                 /\ Steps(j)[done[j][m]].kind = "reg"
                 /\ done[j][m] \notin FailedSteps(j, "reg")}}

\* the steps 1..k in order
UpTo(k) == [n \in 1..k |-> n]

\* C6: a closure's fetch fails with the context's error only if the context
\* given to Run is done (a sibling's failure, which cancels only the
\* errgroup's own context, never causes it); every closure that is running is
\* partway through its own steps, every closure that returned nil executed
\* all of its steps, and every closure that returned an error failed at one
\* of its own steps, having executed the steps before it.
C6_SiblingFailureDoesNotAffectOthers ==
    /\ \A j \in JobNames : ret[j].cause = "ctx" => ctxErr # "nil"
    /\ \A i \in inst : i.cur /\ ret[i.job] = Pending /\ done[i.job] = UpTo(i.step - 1)
    /\ \A j \in JobNames :
         /\ ret[j] = NoErr => done[j] = UpTo(Len(Steps(j)))
         /\ IsError(ret[j]) =>
              /\ ret[j].job = j
              /\ done[j] = UpTo(ret[j].step)
              /\ ret[j].cause = "reg" <=> Steps(j)[ret[j].step].kind = "reg"

\* lights failed on its first fetch, the context is not cancelled, and groups
\* and sensors both ran to the end, one of them at least completing a step
\* after the failure
C6_Witness ==
    /\ firstFail = "lights"
    /\ Len(done["lights"]) = 1
    /\ ctxErr = "nil"
    /\ grpCtxDone
    /\ afterFail
    /\ ret["groups"] = NoErr
    /\ ret["sensors"] = NoErr

\* C7 (as claimed): after the join, every error a closure returned is carried
\* by exactly one error record of the cycle's log, the closures' and the
\* Gatherer's records counted together.
C7_ExactlyOneRecordPerFailure ==
    Joined =>
      \A j \in JobNames :
         IsError(ret[j]) =>
            RecordsCarrying(log, ret[j], JobNames \cup {"gatherer"}) = 1

\* C7 (amended): every error a closure returned is carried by exactly one
\* record written by that closure, and a closure that returned nil wrote none;
\* after the join the error of the closure that failed first is carried by one
\* more record, the Gatherer's, and no other error is: two records for the
\* first failure of a cycle, one for every other, never none.
C7_OneJobRecordPlusGathererForFirst ==
    \A j \in JobNames :
       /\ IsError(ret[j]) =>
            /\ RecordsCarrying(log, ret[j], {j}) = 1
            /\ RecordsCarrying(log, ret[j], JobNames \ {j}) = 0
            /\ RecordsCarrying(log, ret[j], {"gatherer"}) =
                  IF Joined /\ firstFail = j THEN 1 ELSE 0
       /\ ~IsError(ret[j]) => {r \in BagToSet(log) : r.by = j} = {}

\* after the join: lights failed first, on a registration (its error is
\* wrapped), and carries two records; groups failed later and carries one
C7_Witness ==
    /\ runPc = "select"
    /\ firstFail = "lights"
    /\ ret["lights"].cause = "reg"
    /\ IsError(ret["groups"])
    /\ RecordsCarrying(log, ret["lights"], JobNames \cup {"gatherer"}) = 2
    /\ RecordsCarrying(log, ret["groups"], JobNames \cup {"gatherer"}) = 1

\* C8: the step that leaves the join goes to the select and adds to the log
\* exactly one 'job failed to collect metrics' record, carrying the error of
\* the closure that was first to return one, if some closure returned an
\* error, and nothing otherwise; no other step of a cycle adds or removes
\* such a record.
C8_GathererLogsFirstErrorOnce ==
    [][ IF runPc = "wait" /\ runPc' # "wait"
          THEN /\ runPc' = "select"
               /\ log' = IF \E j \in JobNames : IsError(ret[j])
                           THEN log (+) SetToBag({GathererRecord(ret[firstFail])})
                           ELSE log
          ELSE \/ runPc = "top"
               \/ GathererFailRecords(log') = GathererFailRecords(log) ]_vars

\* after the join of a cycle in which all three closures failed, sensors
\* first: the one Gatherer record carries the error sensors returned
C8_Witness ==
    /\ runPc = "select"
    /\ \A j \in JobNames : IsError(ret[j])
    /\ firstFail = "sensors"
    /\ GathererFailRecords(log) = 1
    /\ CopiesIn(GathererRecord(ret["sensors"]), log) = 1

\* C9 (as claimed): when one of the three fetches of the lights closure
\* failed in the cycle, the closure registered no gauge family in that cycle.
C9_AnyFetchFailureMeansNoRegistration ==
    FailedSteps("lights", "fetch") # {} => Registered("lights") = {}

\* C9 (amended): when the groups fetch or the lights fetch failed, the lights
\* closure registered no family in that cycle; when the new-lights fetch
\* failed, it had registered light and light_brightness in that cycle, and
\* not new_light.
C9_RegistrationOnlyAfterPrecedingFetches ==
    /\ FailedSteps("lights", "fetch") \cap {1, 2} # {} => Registered("lights") = {}
    /\ 5 \in FailedSteps("lights", "fetch") =>
         Registered("lights") = {"light", "light_brightness"}
    /\ "new_light" \in Registered("lights") =>
         FailedSteps("lights", "fetch") = {}

\* the new-lights fetch failed after light and light_brightness were registered
C9_Witness ==
    /\ ret["lights"] = CallError("lights", 5, "net")
    /\ Registered("lights") = {"light", "light_brightness"}
    /\ Joined

\* C10: when a closure logged a failed registration, it has returned an error
\* that wraps the registration error with the family's message, and it
\* executed nothing after the failed step (for lights: after a failed 'light'
\* neither 'light_brightness', the new-lights fetch nor 'new_light'; after a
\* failed 'light_brightness' neither the new-lights fetch nor 'new_light');
\* and Run has not returned unless the context is done.
C10_RegistrationFailureEndsTheJobCycle ==
    /\ \A j \in JobNames :
         \A k \in FailedSteps(j, "reg") :
            /\ done[j] = UpTo(k)
            /\ ret[j] = Wrap(Steps(j)[k].wrapMsg, CallError(j, k, "reg"))
            /\ ret[j].wrap # ""
            /\ Unwrap(ret[j]) = CallError(j, k, "reg")
            /\ Registered(j) = {Steps(j)[m].name : m \in {n \in 1..(k - 1) :
                                                      Steps(j)[n].kind = "reg"}}
    /\ runPc = "returned" => ctxErr # "nil"

\* lights failed in the first cycle and Run went on; in the second cycle the
\* 'light_brightness' registration failed after 'light' was registered, and the
\* sensors registration failed too
C10_Witness ==
    /\ cycle = 2
    /\ "lights" \in prevFailed
    /\ runPc = "wait"
    /\ ret["lights"] = Wrap("failed to collect light brightness",
                            CallError("lights", 4, "reg"))
    /\ Registered("lights") = {"light"}
    /\ ret["sensors"] = Wrap("failed to collect group count",
                             CallError("sensors", 2, "reg"))

\* C11: every span is ended exactly once. A job's span is started by the
\* Collect call that launches it and is open while its closure runs; once the
\* closure has returned, whatever it returned, the span has been ended once.
\* The cycle's span is open from the top of the loop to the select and has
\* been ended once when Run is back at the top of the loop or has returned,
\* so that no span is open when the next cycle's span is started.
C11_EverySpanEndedExactlyOnce ==
    /\ \A j \in JobNames :
         /\ spanStarted[j] = launched[j]
         /\ spanEnded[j] = IF ret[j] = Pending THEN 0 ELSE 1
         /\ spanEnded[j] <= spanStarted[j]
    /\ runPc \in {"launch", "wait", "select"} =>
         (spanStarted["run"] = 1 /\ spanEnded["run"] = 0)
    /\ runPc \in {"idle", "top", "returned"} =>
         \A n \in SpanNames : spanEnded[n] = spanStarted[n]
    /\ (runPc \in {"top", "returned"} /\ cycle > 0) =>
         \A n \in SpanNames : spanEnded[n] = 1

\* Run has returned from a second cycle in which lights failed on a
\* registration, groups on its fetch and sensors succeeded: all four spans of
\* the cycle were started once and ended once
C11_Witness ==
    /\ runPc = "returned"
    /\ cycle = 2
    /\ ret["lights"].cause = "reg"
    /\ ret["groups"].cause = "net"
    /\ ret["sensors"] = NoErr
    /\ \A n \in SpanNames : spanStarted[n] = 1 /\ spanEnded[n] = 1

\* whether an option list leaves g.log nil: it holds no WithLogger, or the
\* last WithLogger in it was handed a nil logger
RECURSIVE LeavesLoggerUnset(_)
LeavesLoggerUnset(os) ==
    IF os = <<>> THEN TRUE
    ELSE LET o == os[Len(os)]
         IN  IF o.opt = "logger" THEN o.arg = "nil"
             ELSE LeavesLoggerUnset(SubSeq(os, 1, Len(os) - 1))

\* whether an option list holds WithExporter
HasExporter(os) == \E n \in DOMAIN os : os[n].opt = "exporter"

\* C12 (as claimed): NewGatherer called with an option list that leaves the
\* logger unset returns ErrInvalidLogger and no Gatherer, without panicking,
\* and then Run is never entered and no job is launched.
C12_NoLoggerNoGatherer ==
    (LeavesLoggerUnset(opts) /\ newResult # "pending") =>
        /\ newResult = "ErrInvalidLogger"
        /\ jobs = <<>>
        /\ runPc = "idle"
        /\ inst = {}
        /\ \A j \in JobNames : launched[j] = 0

\* C13 (as claimed): NewGatherer called without WithExporter returns no
\* Gatherer, so Run is never entered with the meter unset.
C13_NoExporterNoGatherer ==
    /\ (~HasExporter(opts) /\ newResult # "pending") => newResult # "gatherer"
    /\ runPc # "idle" => g.meter # "nil"

\* the label sets that mark an observation made for no entity
NoLabels == <<>>

\* C14 (as claimed): whatever the observer, a callback built from an empty
\* batch makes exactly one observation, of value 0 with an empty label set.
C14_EmptyBatchOneZeroNoLabels ==
    \A k \in DOMAIN obsOut :
        Len(Entities(obsFamily, obsBatch)) = 0 =>
            obsOut[k] = <<[value |-> 0, labels |-> NoLabels]>>

\* C14 (amended): a callback built from an empty batch makes exactly one
\* observation, of value 0; its label set is empty for light,
\* light_brightness, group and sensors, and holds only lastScan (the batch's
\* LastScan) for new_light.
C14_EmptyBatchOneZeroLastScanOnly ==
    \A k \in DOMAIN obsOut :
        Len(Entities(obsFamily, obsBatch)) = 0 =>
            /\ Len(obsOut[k]) = 1
            /\ obsOut[k][1].value = 0
            /\ obsOut[k][1].labels =
                 IF obsFamily = "new_light"
                 THEN [lastScan |-> obsBatch.lastScan]
                 ELSE NoLabels

\* the new_light callback built from a scan that found nothing has been scraped
C14_Witness ==
    /\ obsFamily = "new_light"
    /\ obsBatch = [lastScan |-> "2021-10-01T12:00:00", lights |-> <<>>]
    /\ Len(obsOut) = 1
    /\ obsOut[1] = <<[value |-> 0, labels |-> [lastScan |-> "2021-10-01T12:00:00"]]>>

Holders(id) ==
    {m \in DOMAIN obsIndex :
        \E x \in DOMAIN obsIndex[m].lights : obsIndex[m].lights[x] = Itoa(id)}

\* C16: in every observation of the light and light_brightness callbacks, the
\* group label of a light whose id is in the member list of some fetched group
\* is the name of such a group (of the first one in the fetched order), and
\* the group label of a light that is in no member list is the empty string.
C16_GroupLabelIsHoldingGroupsName ==
    \A k \in DOMAIN obsOut :
        obsFamily \in {"light", "light_brightness"} =>
            \A n \in DOMAIN obsBatch :
                LET label == obsOut[k][n].labels.group
                    hs == Holders(obsBatch[n].id)
                IN  /\ hs # {} =>
                         /\ \E m \in hs : label = obsIndex[m].name
                         /\ \A m \in hs :
                              (\A x \in hs : m <= x) => label = obsIndex[m].name
                    /\ hs = {} => label = ""

\* the light_brightness callback has been scraped for lights 12 and 1 and two
\* groups: both groups hold light 12 and it is labelled with the first, only
\* the second holds light 1 (the first lists "01") and it is labelled with it
C16_Witness ==
    /\ obsFamily = "light_brightness"
    /\ Len(obsIndex) = 2
    /\ obsIndex[1].name = "Group A" /\ obsIndex[1].lights = <<"01", "12">>
    /\ obsIndex[2].name = "Group B" /\ obsIndex[2].lights = <<"12", "1">>
    /\ Len(obsBatch) = 2
    /\ obsBatch[1].id = 12 /\ obsBatch[2].id = 1
    /\ Len(obsOut) = 1
    /\ obsOut[1][1].labels.group = "Group A"
    /\ obsOut[1][2].labels.group = "Group B"

\* the job each gauge family belongs to
Owner(f) ==
    CASE f \in {"light", "light_brightness", "new_light"} -> "lights"
      [] f = "group" -> "groups"
      [] f = "sensors" -> "sensors"

FetchesIssued(j) ==
    LET fs == {n \in DOMAIN done[j] : Steps(j)[done[j][n]].kind = "fetch"}
        RECURSIVE Names(_)
        Names(n) == IF n > Len(done[j]) THEN <<>>
                    ELSE IF n \in fs THEN <<Steps(j)[done[j][n]].name>> \o Names(n + 1)
                    ELSE Names(n + 1)
    IN  Names(1)

\* whether sequence p is a prefix of sequence q
IsPrefix(p, q) == Len(p) <= Len(q) /\ \A n \in DOMAIN p : p[n] = q[n]

\* C19: within a cycle every job issues its calls once each and in the order
\* of its closure; the lights job fetches groups, then lights, then new
\* lights; a failed fetch is the job's last call of the cycle, so after a
\* failed groups fetch lights and new lights are not fetched.
C19_FetchesOnceInOrderNoneAfterFailure ==
    /\ \A j \in JobNames :
         /\ done[j] = UpTo(Len(done[j]))
         /\ Len(done[j]) <= Len(Steps(j))
         /\ \A k \in FailedSteps(j, "fetch") :
              /\ k = Len(done[j])
              /\ IsError(ret[j]) \/ ret[j] = Pending
              /\ \A i \in inst : i.job # j
    /\ IsPrefix(FetchesIssued("lights"), <<"groups", "lights", "newlights">>)
    /\ IsPrefix(FetchesIssued("groups"), <<"groups">>)
    /\ IsPrefix(FetchesIssued("sensors"), <<"sensors">>)
    /\ 1 \in FailedSteps("lights", "fetch") =>
         /\ FetchesIssued("lights") = <<"groups">>
         /\ Registered("lights") = {}

\* the groups fetch of the lights job failed on the network and the cycle has
\* joined: the lights job fetched nothing else, the other two jobs ran through
C19_Witness ==
    /\ Joined
    /\ ctxErr = "nil"
    /\ ret["lights"] = CallError("lights", 1, "net")
    /\ FetchesIssued("lights") = <<"groups">>
    /\ ret["groups"] = NoErr /\ ret["sensors"] = NoErr

\* C20: Run looks at the context nowhere but in the select after the join.
\* At the top of the loop the cycle starts whatever the ticker and the
\* context hold, a started cycle launches all three jobs, and Run returns the
\* context error only after a cycle, when all its closures have returned.
C20_ContextCheckedOnlyAfterJoin ==
    /\ runPc = "top" => ENABLED StartCycle
    /\ cycle = 0 => runPc \in {"idle", "top"}
    /\ (runPc \in {"wait", "select", "returned"} \/ (runPc = "top" /\ cycle >= 1)) =>
         \A j \in JobNames : launched[j] = 1
    /\ runPc \in {"select", "returned"} => \A j \in JobNames : ret[j] # Pending
    /\ runPc = "returned" =>
         /\ cycle >= 1
         /\ ctxErr # "nil"
         /\ retVal = CtxError(ctxErr)

\* the context was cancelled before the first closure was launched and no
\* tick has arrived: the first cycle still launched all three jobs, each
\* failed its first fetch on the cancelled context, and Run has returned
C20_Witness ==
    /\ runPc = "returned"
    /\ cycle = 1
    /\ ~tickPending
    /\ ~cancelMid
    /\ retVal = CtxError(ctxErr)
    /\ \A j \in JobNames :
         launched[j] = 1 /\ ret[j].cause = "ctx" /\ ret[j].step = 1

\* C21: Run does not get past the join while a closure of the cycle is still
\* executing: with a closure in flight Run is launching or waiting and can
\* neither finish the wait nor take either branch of the select, cancelled
\* context or not; once Run is in the select or has returned, no closure is
\* in flight and every job of the cycle has returned.
C21_RunBlockedWhileAClosureRuns ==
    /\ inst # {} =>
         /\ runPc \in {"launch", "wait"}
         /\ ~ENABLED Wait
         /\ ~ENABLED SelectDone
         /\ ~ENABLED SelectTick
    /\ runPc \in {"select", "returned"} =>
         /\ inst = {}
         /\ \A j \in JobNames : launched[j] = 1 /\ ret[j] # Pending

\* the context is cancelled and a tick is pending, groups and sensors have
\* returned, and Run still waits for the lights closure, which is in its
\* first fetch
C21_Witness ==
    /\ runPc = "wait"
    /\ ctxErr # "nil"
    /\ tickPending
    /\ inst = {[job |-> "lights", step |-> 1, cur |-> TRUE]}
    /\ ret["groups"] # Pending /\ ret["sensors"] # Pending
    /\ ret["lights"] = Pending

\* C22: the cycles started never exceed one plus the ticks received (inside
\* a cycle they equal it; both are counted up to the cycle bound). Run leaves
\* the select for another cycle only by receiving the one tick the ticker
\* channel holds, which empties the channel; a tick leaves the channel in no
\* other way, and a tick that fires starts nothing by itself, so the ticks
\* fired during a long cycle leave at most one tick behind and are followed
\* by at most one immediately started cycle.
C22_OneTickPerLaterCycle ==
    /\ [](/\ tickPending \in BOOLEAN
          /\ cycle <= 1 + ticksTaken
          /\ runPc \in {"launch", "wait", "select", "returned"} =>
                cycle = 1 + ticksTaken
          /\ runPc = "idle" => (cycle = 0 /\ ticksTaken = 0))
    /\ [][ /\ (runPc = "select" /\ runPc' = "top") =>
                 (tickPending /\ ~tickPending')
           /\ cycle' # cycle => (runPc = "top" /\ runPc' = "launch")
           /\ (runPc = "top" /\ runPc' = "launch" /\ cycle >= 1) =>
                 ticksTaken >= IF cycle < MaxCycles THEN cycle ELSE MaxCycles - 1
           /\ ticksTaken' # ticksTaken => (tickPending /\ ~tickPending')
           /\ (tickPending /\ ~tickPending') =>
                 (runPc = "select" /\ runPc' = "top")
           /\ (~tickPending /\ tickPending') =>
                 UNCHANGED <<runPc, cycle, ticksTaken, inst, launched>> ]_vars

\* the first cycle took one tick to be followed by the second; the second has
\* joined and Run waits in the select, the channel empty, for the next tick
C22_Witness ==
    /\ runPc = "select"
    /\ cycle = 2
    /\ ticksTaken = 1
    /\ ~tickPending
    /\ ctxErr = "nil"

\* the observations of the other light callback registered in the same cycle,
\* which lights.Collect builds from the same lights and the same lightGroups
SiblingObservations ==
    IF obsFamily = "light"
    THEN lightBrightnessObserver(obsBatch, obsIndex)
    ELSE lightObserver(obsBatch, obsIndex)

\* C23: in every observation of the light and light_brightness callbacks, a
\* light whose id is in the member lists of two or more fetched groups is
\* labelled with the name of the one fetched first; and the n-th observation
\* of the light callback and of the light_brightness callback of the same
\* cycle carry the same group label, for the same light.
C23_FirstHoldingGroupInBothFamilies ==
    obsFamily \in {"light", "light_brightness"} =>
        LET sibling == SiblingObservations
        IN  \A k \in DOMAIN obsOut :
                /\ Len(sibling) = Len(obsOut[k])
                /\ \A n \in DOMAIN obsBatch :
                     LET ls == obsOut[k][n].labels
                         hs == Holders(obsBatch[n].id)
                     IN  /\ Cardinality(hs) >= 2 =>
                              \E m \in hs : /\ \A x \in hs : m <= x
                                            /\ ls.group = obsIndex[m].name
                         /\ sibling[n].labels.group = ls.group
                         /\ sibling[n].labels.id = ls.id

\* the light callback has been scraped for light 12, which "Group B", fetched
\* first, and "Group A", fetched second, both hold: it is labelled "Group B"
C23_Witness ==
    /\ obsFamily = "light"
    /\ Len(obsIndex) = 2
    /\ obsIndex[1].name = "Group B" /\ obsIndex[1].lights = <<"12", "1">>
    /\ obsIndex[2].name = "Group A" /\ obsIndex[2].lights = <<"01", "12">>
    /\ Len(obsBatch) = 1
    /\ obsBatch[1].id = 12
    /\ Len(obsOut) = 2
    /\ obsOut[2][1].labels.group = "Group B"

=============================================================================
